---- MODULE Spec2Model ----
(***************************************************************************)
(* Model of the fintech backend (Supabase identity + Para custodial wallet *)
(* + Sepolia RPC): the Express handlers of server.js and api/handler.js.   *)
(* Every handler is cut at its awaits: one action is one external call     *)
(* together with the synchronous code that runs until the next await.      *)
(* The three external services answer nondeterministically.                *)
(***************************************************************************)
EXTENDS Integers, Sequences, FiniteSets, TLC

\* ---------------------------------------------------------------- bounds
NumUsers   == 2      \* accounts known to the identity provider
MaxWallets == 2      \* wallet ids the wallet provider hands out
MaxNonce   == 1      \* cap of the transactions the chain accepts in a run
MaxReq     == 2      \* request slots of the server

\* ------------------------------------------------------ program constants
CHAIN_ID     == 11155111
MAX_ATTEMPTS == 60
GAS_LIMIT    == 21000
DECIMALS     == 18

Users   == 1..NumUsers
Wallets == 1..MaxWallets
Slots   == 1..MaxReq
Impls   == {"server", "handler"}

\* ------------------------------------------------------------ JS values
\* A JavaScript value of a request field: undefined, a string (sequence of
\* one-character or atomic pieces) or a number.
Undef     == [t |-> "undef", v |-> <<>>]
Str(s)    == [t |-> "str", v |-> s]
Num(s)    == [t |-> "num", v |-> s]
\* JS truthiness: undefined, "" and 0 are falsy
TruthyNumeric(x) == x.t # "undef" /\ x.v # <<>> /\ x.v # <<"0">>
Truthy(x) == CASE x.t = "undef" -> FALSE
               [] x.t = "str"   -> x.v # <<>>
               [] OTHER         -> x.v # <<"0">>

\* ------------------------------------------------------ header parsing
TokNames == <<"t1", "t2", "t3", "t4">>
JWT(u)   == TokNames[u]                 \* the token that asserts account u
TokAtoms == {JWT(u) : u \in Users} \cup {"junk"}

\* String.prototype.split(' '): the pieces between the single spaces
RECURSIVE SplitSp(_, _, _)
SplitSp(s, cur, acc) ==
  IF s = <<>> THEN Append(acc, cur)
  ELSE IF Head(s) = " " THEN SplitSp(Tail(s), <<>>, Append(acc, cur))
       ELSE SplitSp(Tail(s), Append(cur, Head(s)), acc)
Split(s) == SplitSp(s, <<>>, <<>>)

\* req.headers.authorization?.split(' ')[1]
ExtractToken(h) ==
  IF h.t = "undef" THEN Undef
  ELSE IF Len(Split(h.v)) >= 2 THEN Str(Split(h.v)[2]) ELSE Undef

Headers ==
  {Undef, Str(<<"Bearer">>), Str(<<"Bearer", " ">>)}
  \cup {Str(<<"Bearer", " ", t>>) : t \in TokAtoms}
  \cup {Str(<<"Token", " ", JWT(1)>>)}
  \cup {Str(<<t>>) : t \in TokAtoms}

\* ------------------------------------------------------ ethers.parseEther
DigitCh == {"0", "1", "2", "3", "4", "5", "6", "7", "8", "9"}

RECURSIVE TakeDigits(_)
TakeDigits(s) ==
  IF s # <<>> /\ Head(s) \in DigitCh THEN <<Head(s)>> \o TakeDigits(Tail(s))
  ELSE <<>>

RECURSIVE StripZeros(_)
StripZeros(s) ==
  IF s # <<>> /\ Head(s) = "0" THEN StripZeros(Tail(s)) ELSE s

RECURSIVE Zeros(_)
Zeros(n) == IF n <= 0 THEN <<>> ELSE <<"0">> \o Zeros(n - 1)

Throw == [ok |-> FALSE, neg |-> FALSE, mag |-> <<>>]
Big(neg, mag) == [ok |-> TRUE, neg |-> neg /\ StripZeros(mag) # <<>>,
                  mag |-> StripZeros(mag)]

\* parseUnits(value, 18) through FixedNumber.fromString: the value must be a
\* string matching ^(-?)([0-9]*)\.?([0-9]*)$ with at least one digit and at
\* most 18 significant decimals; the result is BigInt(sign+whole+decimals),
\* kept as its decimal digits because it exceeds the machine integers.
ParseEther(a) ==
  IF a.t # "str" THEN Throw
  ELSE
    LET neg   == a.v # <<>> /\ Head(a.v) = "-"
        s1    == IF neg THEN Tail(a.v) ELSE a.v
        whole == TakeDigits(s1)
        s2    == SubSeq(s1, Len(whole) + 1, Len(s1))
        s3    == IF s2 # <<>> /\ Head(s2) = "." THEN Tail(s2) ELSE s2
        frac  == TakeDigits(s3)
        pad   == frac \o Zeros(DECIMALS - Len(frac))
    IN  IF Len(frac) # Len(s3) \/ Len(whole) + Len(frac) = 0 THEN Throw
        ELSE IF StripZeros(SubSeq(pad, DECIMALS + 1, Len(pad))) # <<>> THEN Throw
        ELSE Big(neg, (IF whole = <<>> THEN <<"0">> ELSE whole)
                       \o SubSeq(pad, 1, DECIMALS))

\* ------------------------------------------------- addresses and wallets
AddrNames  == <<"0xA1", "0xA2", "0xA3", "0xA4">>
NoAddr     == ""
Addr(w)    == AddrNames[w]              \* wallet.address of a ready wallet

\* recipient values a caller may send: none, or the zero address
ToValues   == {Undef, Str(<<"0x00">>)}
\* ethers getAddress(): the checksummed form, or a throw ("" here)
GetAddress(t) ==
  IF t.t # "str" THEN ""
  ELSE IF t.v \in {<<"0xAB">>, <<"0xab">>} THEN "0xAB"
  ELSE IF t.v = <<"0x00">> THEN "0x00"
  ELSE ""

AmountValues ==
  {Undef, Num(<<"0">>), Str(<<"0">>), Str(<<"1", ".", "5">>),
   Str(<<"-", "0", ".", "1">>), Str(<<"a", "b", "c">>)}

\* ------------------------------------------------------- transactions
Fees == {1000000000, 2000000000}
FeeData(f) == [maxFeePerGas |-> f, maxPriorityFeePerGas |-> 1000000000]

NoTx == [chainId |-> 0, nonce |-> 0, to |-> "", value |-> Big(FALSE, <<>>),
         gasLimit |-> 0, maxFeePerGas |-> 0, maxPriorityFeePerGas |-> 0,
         data |-> "0x"]

\* the object literal tx = { chainId, nonce, to, value, gasLimit, ... }
\* followed by ethers.Transaction.from(tx), which normalises `to`
BuildTx(nonce, to, value, fd) ==
  [chainId |-> CHAIN_ID, nonce |-> nonce, to |-> GetAddress(to),
   value |-> value, gasLimit |-> GAS_LIMIT,
   maxFeePerGas |-> fd.maxFeePerGas,
   maxPriorityFeePerGas |-> fd.maxPriorityFeePerGas, data |-> "0x"]

\* the EIP-1559 field list in wire order, (type byte, RLP list);
\* the access list is empty
Fields(tx) ==
  <<tx.chainId, tx.nonce, tx.maxPriorityFeePerGas, tx.maxFeePerGas,
    tx.gasLimit, tx.to, tx.value.mag, tx.data, <<>> >>
UnsignedSerialized(tx) == <<"0x02", Fields(tx)>>
\* the serializer refuses a negative quantity
Serializable(tx) == ~tx.value.neg

\* a collision-free hash
Keccak256(bytes) == <<"keccak256", bytes>>
NoDigest == <<>>
\* the hash of the structured fields, before serialization
StructHash(tx) == Keccak256(<<"fields", Fields(tx)>>)

Digest(tx) == Keccak256(UnsignedSerialized(tx))

\* the signer's answer, parsed by ethers.Signature.from
Signature(w, data) == [signer |-> w, over |-> data]
\* ethers.serializeTransaction(unsignedTx, signature)
SerializeSigned(tx, sig) == <<"0x02", Fields(tx), sig>>
NoRaw == <<>>

\* what a node does with a raw transaction: recover the signer from the
\* signature over the hash of the unsigned part, require the next nonce
RECURSIVE SumTo(_, _)
SumTo(f, n) == IF n = 0 THEN 0 ELSE f[n] + SumTo(f, n - 1)
NodeAccepts(raw, nonces) ==
  /\ raw # NoRaw
  /\ raw[3].signer \in Wallets
  /\ raw[3].over = Keccak256(<<raw[1], raw[2]>>)
  /\ raw[2][2] = nonces[raw[3].signer]
  /\ SumTo(nonces, MaxWallets) < MaxNonce

\* ------------------------------------------------------------- state
VARIABLES
  impl,        \* which entry point is deployed: server.js or api/handler.js
  cfg,         \* which environment values are set
  walletMap,   \* supabase user id -> para wallet id (0: no entry)
  nextWallet,  \* wallet provider: number of wallets created so far
  paraWallet,  \* wallet provider: the wallet of each user identifier (0: none)
  chainNonce,  \* chain: transaction count of each wallet's address
  feeNow,      \* chain: current max fee per gas
  req          \* the requests in flight, one record per slot

vars == <<impl, cfg, walletMap, nextWallet, paraWallet, chainNonce, feeNow, req>>

EmailNames == <<"a@x", "b@x", "c@x", "d@x">>
Email(u)   == Str(<<EmailNames[u]>>)
UserOf(e)  == CHOOSE u \in Users : Email(u) = e
Emails     == {Undef, Str(<<>>)} \cup {Email(u) : u \in Users}
Passwords  == {Undef, Str(<<>>), Str(<<"pw">>)}

NoBody == [error |-> "", user |-> 0, addr |-> NoAddr, hash |-> NoDigest,
           token |-> "", warning |-> FALSE]

Idle == [kind |-> "none", pc |-> "idle", hdr |-> Undef, email |-> Undef,
         password |-> Undef, to |-> Undef, amount |-> Undef,
         token |-> Undef, cause |-> "", user |-> 0, wid |-> 0,
         addr |-> NoAddr,
         attempts |-> 0, queries |-> 0, ready0 |-> FALSE, ready |-> FALSE,
         nonce |-> 0,
         tx |-> NoTx, digest |-> NoDigest, sent |-> NoDigest, raw |-> NoRaw,
         log |-> <<>>, err |-> "", status |-> 0, body |-> NoBody]

FullConfig == [supabase |-> TRUE, para |-> TRUE, rpc |-> TRUE]
\* the environments with at most one of the three groups of values unset:
\* SUPABASE_URL / SUPABASE_ANON_KEY, PARA_API_KEY, INFURA_KEY
Configs ==
  { FullConfig,
    [supabase |-> FALSE, para |-> TRUE,  rpc |-> TRUE ],
    [supabase |-> TRUE,  para |-> FALSE, rpc |-> TRUE ],
    [supabase |-> TRUE,  para |-> TRUE,  rpc |-> FALSE] }

Init ==
  /\ impl \in Impls
  /\ cfg = FullConfig
  /\ walletMap = [u \in Users |-> 0]
  /\ nextWallet = 0
  /\ paraWallet = [u \in Users |-> 0]
  /\ chainNonce = [w \in Wallets |-> 0]
  /\ feeNow \in Fees
  /\ req = [i \in Slots |-> Idle]

\* the process started in any of the environments
InitConfig ==
  /\ impl \in Impls
  /\ cfg \in Configs
  /\ walletMap = [u \in Users |-> 0]
  /\ nextWallet = 0
  /\ paraWallet = [u \in Users |-> 0]
  /\ chainNonce = [w \in Wallets |-> 0]
  /\ feeNow \in Fees
  /\ req = [i \in Slots |-> Idle]

\* server.js builds the Supabase client while the module loads; without its
\* URL or key createClient throws and app.listen is never reached
Serving == impl = "handler" \/ cfg.supabase

Free(i) == req[i].pc = "idle"
\* one request at a time: the next one is admitted when none is in flight
OneAtATime(i) == i = 1 /\ \A j \in Slots : Free(j)

\* res.status(st).json(body)
Respond(r, st, body) == [r EXCEPT !.pc = "done", !.status = st, !.body = body]
\* an early return res.status(st).json({ error: msg })
Reject(r, st, msg)   == Respond(r, st, [NoBody EXCEPT !.error = msg])
\* an exception with message msg is thrown inside the handler's try block
Thrown(r, msg)       == [r EXCEPT !.err = msg]
\* the handler's catch: res.status(500).json({ error: err.message })
CatchEscapes(r) == [r EXCEPT !.pc = "escaped"]
CatchRetrySign(r) ==
  IF r.log # <<>> /\ r.log[Len(r.log)] = "sign-raw"
  THEN [r EXCEPT !.pc = "sign", !.err = ""]
  ELSE Respond(r, 500, [NoBody EXCEPT !.error = r.err])
Catch(r)             == Respond(r, 500, [NoBody EXCEPT !.error = r.err])
Logged(r, call)      == [r EXCEPT !.log = Append(@, call)]

\* paraRequest: handler.js throws before the fetch when the key is unset;
\* server.js sends the request, which the provider then refuses
ParaAnswers == IF cfg.para THEN {"ok", "error"} ELSE {"error"}
ParaCalled  == cfg.para \/ impl = "server"
ParaLog(r, call) == IF ParaCalled THEN Logged(r, call) ELSE r
\* the message of the error a failed paraRequest throws
ParaFail == IF ParaCalled THEN "Para API error" ELSE "PARA_API_KEY not set"
RpcAnswers  == IF cfg.rpc THEN {"ok", "error"} ELSE {"error"}
\* the Supabase client: handler.js creates it on first use and throws when
\* the URL or key is unset
IdpReachable == cfg.supabase
IdpAnswers   == IF IdpReachable THEN {"ok", "error", "throw"} ELSE {"throw"}
IdpLogSkipped(r, call) == r
IdpLog(r, call) == IF IdpReachable THEN Logged(r, call) ELSE r

NotFoundMsg == IF impl = "server" THEN "Wallet not found"
               ELSE "Wallet not found in session"

Upd(i, r) == req' = [req EXCEPT ![i] = r]
ext == <<walletMap, nextWallet, paraWallet, chainNonce, feeNow>>

\* ------------------------------------------------------------ signup
\* if (!email || !password) return 400, in /signup and /login
CheckCredentials(r, next) ==
  IF ~Truthy(r.email) \/ ~Truthy(r.password)
  THEN Reject(r, 400, "Email and password required")
  ELSE [r EXCEPT !.pc = next]

\* app.post('/signup'), app.post('/api/signup'): up to the first await
StartSignup(i, e, p) ==
  /\ Serving /\ Free(i)
  /\ Upd(i, CheckCredentials(
              [Idle EXCEPT !.kind = "signup", !.email = e, !.password = p],
              "signUp"))
  /\ UNCHANGED <<impl, cfg, ext>>

\* what an answer of the identity provider was: a result with data
\* ("ok"), a result with { error } ("rejected"), or a throw ("transport")
IdpCause(o) == CASE o = "error" -> "rejected"
                 [] o = "throw" -> "transport"
                 [] OTHER       -> "ok"
\* the message of the provider's { error }
IdpMsg == "idp: rejected"

\* if (error) return res.status(400).json({ error: error.message })
SignupRejectedIgnored(r) ==
  [r EXCEPT !.user = UserOf(r.email), !.pc = "create"]
SignupRejected(r) == Reject(r, 400, IdpMsg)

\* the identity provider's registration call and its three outcomes:
\* an account, an { error } result (400), or an exception (outer catch)
SignUp(i) ==
  /\ req[i].kind = "signup" /\ req[i].pc = "signUp"
  /\ \E o \in IdpAnswers :
       LET r == [IdpLog(req[i], "signUp") EXCEPT !.cause = IdpCause(o)]
       IN  Upd(i, CASE o = "error" -> SignupRejected(r)
                    [] o = "throw" -> Catch(Thrown(r, "idp: failure"))
                    [] OTHER -> [r EXCEPT !.user = UserOf(r.email),
                                          !.pc = "create"])
  /\ UNCHANGED <<impl, cfg, ext>>

\* a wallet step of signup threw: server.js answers 500 from its only
\* catch, handler.js answers 200 with wallet_address null and a warning
SignupFailSwallowed(r) ==
  Respond(r, 200, [NoBody EXCEPT !.addr = IF r.wid = 0 THEN "0x" ELSE Addr(r.wid)])
SignupFail(r) ==
  IF impl = "server" THEN Catch(r)
  ELSE Respond(r, 200, [NoBody EXCEPT !.user = r.user, !.warning = TRUE])

\* the loop condition of createParaWallet
LoopAgainOffByOne(status, attempts) ==
  status # "ready" /\ attempts <= MAX_ATTEMPTS
LoopAgainDoWhile(status, attempts) ==
  attempts = 0 \/ (status # "ready" /\ attempts < MAX_ATTEMPTS)
LoopAgain(status, attempts) ==
  status # "ready" /\ attempts < MAX_ATTEMPTS

\* createParaWallet after the loop: the timeout throw, or the mapping is
\* stored and signup goes on to getWalletAddress
AfterLoopExhausted(r) ==
  IF ~r.ready \/ r.attempts >= MAX_ATTEMPTS
  THEN SignupFail(Thrown(r, "Wallet creation timeout"))
  ELSE [r EXCEPT !.pc = "getAddr"]
AfterLoop(r) ==
  IF ~r.ready THEN SignupFail(Thrown(r, "Wallet creation timeout"))
  ELSE [r EXCEPT !.pc = "getAddr"]
MapAfterLoopAlways(r) == [walletMap EXCEPT ![r.user] = r.wid]
MapAfterLoopWrongKey(r) ==
  IF r.ready THEN [walletMap EXCEPT ![1] = r.wid] ELSE walletMap
MapAfterLoop(r) ==
  IF r.ready THEN [walletMap EXCEPT ![r.user] = r.wid] ELSE walletMap

\* POST /wallets with { type: 'EVM', userIdentifier: email,
\* userIdentifierType: 'EMAIL' } is refused with 409 when the provider
\* already holds a wallet for that combination
Duplicate(u) == paraWallet[u] # 0
ConflictMsg  == "Para API error (409)"

\* createParaWallet: POST /wallets and the first evaluation of the loop
\* condition
Create(i) ==
  /\ req[i].kind = "signup" /\ req[i].pc = "create"
  /\ \E o \in ParaAnswers, st \in {"creating", "ready"} :
       LET r == ParaLog(req[i], "create")
       IN  IF o = "error" \/ nextWallet >= MaxWallets
           THEN /\ Upd(i, SignupFail(Thrown(r, ParaFail)))
                /\ UNCHANGED <<walletMap, nextWallet, paraWallet>>
           ELSE IF Duplicate(r.user)
           THEN /\ Upd(i, SignupFail(Thrown(r, ConflictMsg)))
                /\ UNCHANGED <<walletMap, nextWallet, paraWallet>>
           ELSE LET r1 == [r EXCEPT !.wid = nextWallet + 1,
                                    !.ready0 = (st = "ready"),
                                    !.ready = (st = "ready")]
                IN  /\ nextWallet' = nextWallet + 1
                    /\ paraWallet' = [paraWallet EXCEPT
                                        ![r.user] = nextWallet + 1]
                    /\ IF LoopAgain(st, r1.attempts)
                       THEN /\ Upd(i, [r1 EXCEPT !.pc = "poll"])
                            /\ UNCHANGED walletMap
                       ELSE /\ Upd(i, AfterLoop(r1))
                            /\ walletMap' = MapAfterLoop(r1)
  /\ UNCHANGED <<impl, cfg, chainNonce, feeNow>>

\* paraRequest threw inside the loop: the exception leaves
\* createParaWallet
PollFailedRetries(r) == [Thrown(r, ParaFail) EXCEPT !.attempts = @ + 1]
PollFailed(r) == SignupFail(Thrown(r, ParaFail))

\* one iteration of the loop: the 500 ms delay, GET /wallets/:id,
\* attempts++, and the loop condition again
Poll(i) ==
  /\ req[i].kind = "signup" /\ req[i].pc = "poll"
  /\ \E o \in ParaAnswers, st \in {"creating", "ready"} :
       LET r == [ParaLog(req[i], "poll") EXCEPT
                   !.queries = IF ParaCalled THEN @ + 1 ELSE @]
       IN  IF o = "error"
           THEN /\ Upd(i, PollFailed(r))
                /\ UNCHANGED walletMap
           ELSE LET r1 == [r EXCEPT !.attempts = @ + 1,
                                    !.ready = (st = "ready")]
                IN  IF LoopAgain(st, r1.attempts)
                    THEN /\ Upd(i, r1)
                         /\ UNCHANGED walletMap
                    ELSE /\ Upd(i, AfterLoop(r1))
                         /\ walletMap' = MapAfterLoop(r1)
  /\ UNCHANGED <<impl, cfg, nextWallet, paraWallet, chainNonce, feeNow>>

\* getWalletAddress(walletId) and the success response of signup
SignupGetAddr(i) ==
  /\ req[i].kind = "signup" /\ req[i].pc = "getAddr"
  /\ \E o \in ParaAnswers :
       LET r == ParaLog(req[i], "get")
       IN  Upd(i, IF o = "error" THEN SignupFail(Thrown(r, ParaFail))
                  ELSE Respond([r EXCEPT !.addr = Addr(r.wid)], 200,
                               [NoBody EXCEPT !.user = r.user,
                                              !.addr = Addr(r.wid)]))
  /\ UNCHANGED <<impl, cfg, ext>>

\* ------------------------------------------------------------- login
StartLogin(i, e, p) ==
  /\ Serving /\ Free(i)
  /\ Upd(i, CheckCredentials(
              [Idle EXCEPT !.kind = "login", !.email = e, !.password = p],
              "signIn"))
  /\ UNCHANGED <<impl, cfg, ext>>

\* if (error) return res.status(401).json({ error: error.message })
LoginRejectedAs200(r) ==
  Respond(r, 200, [NoBody EXCEPT !.user = UserOf(r.email)])
LoginRejected(r) == Reject(r, 401, IdpMsg)

\* supabase.auth.signInWithPassword and the response of /login
SignIn(i) ==
  /\ req[i].kind = "login" /\ req[i].pc = "signIn"
  /\ \E o \in IdpAnswers :
       LET r == [IdpLog(req[i], "signIn") EXCEPT !.cause = IdpCause(o)]
       IN  Upd(i, CASE o = "error" -> LoginRejected(r)
                    [] o = "throw" -> Catch(Thrown(r, "idp: failure"))
                    [] OTHER ->
                         Respond([r EXCEPT !.user = UserOf(r.email)], 200,
                                 [NoBody EXCEPT
                                    !.user = UserOf(r.email),
                                    !.token = JWT(UserOf(r.email))]))
  /\ UNCHANGED <<impl, cfg, ext>>

\* ------------------------------------------------ wallet-scoped requests
\* const token = ...; if (!token) return 401
AfterHeader(r) ==
  IF ~Truthy(r.token) THEN Reject(r, 401, "Missing token")
  ELSE [r EXCEPT !.pc = "verify"]

\* app.get('/wallet'), app.get('/api/wallet'): header parsing
StartWallet(i, h) ==
  /\ Serving /\ Free(i)
  /\ Upd(i, AfterHeader([Idle EXCEPT !.kind = "wallet", !.hdr = h,
                                     !.token = ExtractToken(h)]))
  /\ UNCHANGED <<impl, cfg, ext>>

\* app.post('/send'), app.post('/api/send'): header parsing
StartSend(i, h) ==
  /\ Serving /\ Free(i)
  /\ Upd(i, AfterHeader([Idle EXCEPT !.kind = "send", !.hdr = h,
                                     !.token = ExtractToken(h)]))
  /\ UNCHANGED <<impl, cfg, ext>>

\* what happens inside verifyToken: getUser answers with the user of a
\* token the provider issued ("ok"), answers { error } or no user for a
\* malformed, expired or revoked token ("rejected"), or the call throws
\* ("transport": no connection, or no client without its configuration)
VerifyOutcomes(tok) ==
  {[cause |-> "transport", user |-> 0]}
  \cup (IF IdpReachable
        THEN {[cause |-> "rejected", user |-> 0]}
             \cup {[cause |-> "ok", user |-> u] :
                     u \in {v \in Users : tok.v = <<JWT(v)>>}}
        ELSE {})
\* if (error || !user) return null; return user.id; catch: return null
VerifyToken(o) == IF o.cause = "ok" THEN o.user ELSE 0
\* verifyToken: the account id, or 0 for null; the provider accepts only
\* a token it issued, may report any token invalid, or is unreachable
VerifyAnswers(tok) == {VerifyToken(o) : o \in VerifyOutcomes(tok)}

\* const walletId = walletMap[userId]; if (!walletId) return 404
LookupAnyEntry(r) ==
  IF \A u \in Users : walletMap[u] = 0 THEN Reject(r, 404, NotFoundMsg)
  ELSE [r EXCEPT !.wid = walletMap[CHOOSE u \in Users : walletMap[u] # 0],
                 !.pc = "getAddr"]
LookupFirst(r) ==
  IF walletMap[r.user] = 0 THEN Reject(r, 404, NotFoundMsg)
  ELSE [r EXCEPT !.wid = 1, !.pc = "getAddr"]
Lookup(r) ==
  IF walletMap[r.user] = 0 THEN Reject(r, 404, NotFoundMsg)
  ELSE [r EXCEPT !.wid = walletMap[r.user], !.pc = "getAddr"]

\* /send after verifyToken: const { to, amount } = req.body, the body
\* check, then the lookup
AfterVerifySend(r0, to, amount) ==
  LET r == [r0 EXCEPT !.to = to, !.amount = amount]
  IN  IF ~Truthy(to) \/ ~Truthy(amount)
      THEN Reject(r, 400, "to and amount required")
      ELSE Lookup(r)

\* if (!userId) return 401, then the rest of the segment
AfterVerifyLeaky(r, to, amount) ==
  IF r.user = 0
  THEN Reject(r, 401, IF r.cause = "transport" THEN "fetch failed"
                      ELSE "Invalid token")
  ELSE IF r.kind = "wallet" THEN Lookup(r)
  ELSE AfterVerifySend(r, to, amount)
AfterVerifyUnchecked(r, to, amount) ==
  IF r.user = 0 THEN Reject(r, 404, NotFoundMsg)
  ELSE IF r.kind = "wallet" THEN Lookup(r)
  ELSE AfterVerifySend(r, to, amount)
AfterVerify(r, to, amount) ==
  IF r.user = 0 THEN Reject(r, 401, "Invalid token")
  ELSE IF r.kind = "wallet" THEN Lookup(r)
  ELSE AfterVerifySend(r, to, amount)

\* await verifyToken(token) and the synchronous code after it, for a
\* request whose body holds the fields to and amount
VerifyWith(i, to, a) ==
  /\ req[i].kind \in {"wallet", "send"} /\ req[i].pc = "verify"
  /\ \E o \in VerifyOutcomes(req[i].token) :
       Upd(i, AfterVerify([IdpLog(req[i], "verify") EXCEPT
                             !.cause = o.cause, !.user = VerifyToken(o)],
                          to, a))
  /\ UNCHANGED <<impl, cfg, ext>>

Verify(i) == \E to \in ToValues, a \in AmountValues : VerifyWith(i, to, a)

\* getWalletAddress(walletId) in /wallet and /send
GetAddr(i) ==
  /\ req[i].kind \in {"wallet", "send"} /\ req[i].pc = "getAddr"
  /\ \E o \in ParaAnswers :
       LET r == ParaLog(req[i], "get")
       IN  Upd(i, IF o = "error" THEN Catch(Thrown(r, ParaFail))
                  ELSE [r EXCEPT !.addr = Addr(r.wid),
                                 !.pc = IF r.kind = "wallet"
                                        THEN "getBalance" ELSE "getNonce"])
  /\ UNCHANGED <<impl, cfg, ext>>

\* getWalletBalance(address) and the response of /wallet
GetBalance(i) ==
  /\ req[i].kind = "wallet" /\ req[i].pc = "getBalance"
  /\ \E o \in RpcAnswers :
       LET r == Logged(req[i], "getBalance")
       IN  Upd(i, IF o = "error" THEN Catch(Thrown(r, "rpc error"))
                  ELSE Respond(r, 200, [NoBody EXCEPT !.addr = r.addr]))
  /\ UNCHANGED <<impl, cfg, ext>>

\* the count the node reports for the sender's address
FetchNonceCached(r) == r.nonce
FetchNonce(r) == chainNonce[r.wid]

\* provider.getTransactionCount(fromAddress)
GetNonce(i) ==
  /\ req[i].kind = "send" /\ req[i].pc = "getNonce"
  /\ \E o \in RpcAnswers :
       LET r == Logged(req[i], "getTransactionCount")
       IN  Upd(i, IF o = "error" THEN Catch(Thrown(r, "rpc error"))
                  ELSE [r EXCEPT !.nonce = FetchNonce(r),
                                 !.pc = "getFee"])
  /\ UNCHANGED <<impl, cfg, ext>>

\* the synchronous block after getFeeData: the tx literal with parseEther,
\* Transaction.from, unsignedSerialized and keccak256
BuildWithoutDigest(r, fd) ==
  [r EXCEPT !.tx = BuildTx(r.nonce, r.to, ParseEther(r.amount), fd),
            !.pc = "sign"]
BuildAndDigest(r, fd) ==
  LET value == ParseEther(r.amount)
      tx    == BuildTx(r.nonce, r.to, value, fd)
  IN  IF ~value.ok
      THEN Catch(Thrown(r, "invalid FixedNumber string value"))
      ELSE IF tx.to = "" THEN Catch(Thrown(r, "invalid address"))
      ELSE IF ~Serializable(tx)
           THEN Catch(Thrown(r, "unsigned value cannot be negative"))
      ELSE [r EXCEPT !.tx = tx, !.digest = Digest(tx), !.pc = "sign"]

\* provider.getFeeData() and the build
GetFee(i) ==
  /\ req[i].kind = "send" /\ req[i].pc = "getFee"
  /\ \E o \in RpcAnswers :
       LET r == Logged(req[i], "getFeeData")
       IN  Upd(i, IF o = "error" THEN Catch(Thrown(r, "rpc error"))
                  ELSE BuildAndDigest(r, FeeData(feeNow)))
  /\ UNCHANGED <<impl, cfg, ext>>

\* the transaction handed to the broadcast: the object that was digested,
\* with the signature
ReattachRebuilt(r, sig) ==
  SerializeSigned(BuildTx(chainNonce[r.wid], r.to, ParseEther(r.amount),
                          FeeData(feeNow)), sig)
Reattach(r, sig) == SerializeSigned(r.tx, sig)

\* the statuses with which the provider refuses a sign-raw request
\* (authorization, wallet not found, transient), and the message
\* paraRequest throws for each
ParaErrorCodes == {"401", "404", "503"}
ParaErr(code) == CASE code = "401" -> "Para API error (401)"
                   [] code = "404" -> "Para API error (404)"
                   [] OTHER        -> "Para API error (503)"
SignAnswers ==
  IF cfg.para THEN {"ok", "malformed", "throw"} \cup ParaErrorCodes
  ELSE {"401"}

\* walletMap after the signing step of a send: the handler and its catch
\* hold no statement that assigns to walletMap
MapAfterSignDropsEntry(r) ==
  IF r.err = ParaErr("404") THEN [walletMap EXCEPT ![r.user] = 0]
  ELSE walletMap
MapAfterSign(r) == walletMap

\* POST /wallets/:id/sign-raw with { data: digest }, Signature.from and
\* serializeTransaction; "malformed" is an answer Signature.from rejects,
\* "throw" a serializeTransaction that throws
Sign(i) ==
  /\ req[i].kind = "send" /\ req[i].pc = "sign"
  /\ \E o \in SignAnswers :
       LET r == [ParaLog(req[i], "sign-raw") EXCEPT
                   !.sent = IF ParaCalled THEN req[i].digest ELSE @]
       IN  Upd(i, CASE o \in ParaErrorCodes ->
                         Catch(Thrown(r, IF ParaCalled THEN ParaErr(o)
                                         ELSE ParaFail))
                    [] o = "malformed" ->
                         Catch(Thrown(r, "invalid signature"))
                    [] o = "throw" ->
                         Catch(Thrown(r, "serializeTransaction failed"))
                    [] OTHER ->
                         [r EXCEPT !.raw = Reattach(r, Signature(r.wid, r.sent)),
                                   !.pc = "broadcast"])
  /\ walletMap' = MapAfterSign(req'[i])
  /\ UNCHANGED <<impl, cfg, nextWallet, paraWallet, chainNonce, feeNow>>

\* the TransactionResponse of an accepted broadcast: the hash under which
\* the network knows the transaction
TxResponse(raw) == [hash |-> Keccak256(raw)]

\* provider.broadcastTransaction(serialized) and the response of /send
Broadcast(i) ==
  /\ req[i].kind = "send" /\ req[i].pc = "broadcast"
  /\ \E o \in RpcAnswers :
       LET r == Logged(req[i], "broadcast")
       IN  IF o = "ok" /\ NodeAccepts(r.raw, chainNonce)
           THEN /\ Upd(i, Respond(r, 200,
                     [NoBody EXCEPT !.hash = TxResponse(r.raw).hash,
                                    !.addr = r.addr]))
                /\ chainNonce' = [chainNonce EXCEPT ![r.raw[3].signer] = @ + 1]
           ELSE /\ Upd(i, Catch(Thrown(r, "rpc error")))
                /\ UNCHANGED chainNonce
  /\ UNCHANGED <<impl, cfg, walletMap, nextWallet, paraWallet, feeNow>>

\* the response has been sent and the handler has returned: the request's
\* locals are gone
Close(i) ==
  /\ req[i].pc = "done"
  /\ Upd(i, Idle)
  /\ UNCHANGED <<impl, cfg, ext>>

\* -------------------------------------------------------- environment
SendInFlight == \E i \in Slots : req[i].kind = "send" /\ req[i].pc # "done"

\* the network's fee estimate moves; only a send reads it, so its moves
\* are followed while a send is in flight
FeeChange ==
  /\ SendInFlight
  /\ \E f \in Fees \ {feeNow} : feeNow' = f
  /\ UNCHANGED <<impl, cfg, walletMap, nextWallet, paraWallet, chainNonce, req>>

\* a transaction of the sending wallet's address that was broadcast
\* elsewhere (by another instance of the service) is included: its count
\* grows
ChainAdvance ==
  /\ SumTo(chainNonce, MaxWallets) < MaxNonce
  /\ \E i \in Slots :
       /\ req[i].kind = "send" /\ req[i].pc # "done" /\ req[i].wid # 0
       /\ chainNonce' = [chainNonce EXCEPT ![req[i].wid] = @ + 1]
  /\ UNCHANGED <<impl, cfg, walletMap, nextWallet, paraWallet, feeNow, req>>

\* the process is restarted between two requests: const walletMap = {} runs
\* again, the providers and the chain keep what they hold
Restart ==
  /\ \A i \in Slots : Free(i)
  /\ walletMap # [u \in Users |-> 0]
  /\ walletMap' = [u \in Users |-> 0]
  /\ UNCHANGED <<impl, cfg, nextWallet, paraWallet, chainNonce, feeNow, req>>

Next ==
  \/ \E i \in Slots, e \in Emails, p \in Passwords :
       OneAtATime(i) /\ StartSignup(i, e, p)
  \/ \E i \in Slots : SignUp(i)
  \/ \E i \in Slots : Create(i)
  \/ \E i \in Slots : Poll(i)
  \/ \E i \in Slots : SignupGetAddr(i)
  \/ \E i \in Slots, e \in Emails, p \in Passwords :
       OneAtATime(i) /\ StartLogin(i, e, p)
  \/ \E i \in Slots : SignIn(i)
  \/ \E i \in Slots, h \in Headers : OneAtATime(i) /\ StartWallet(i, h)
  \/ \E i \in Slots, h \in Headers : OneAtATime(i) /\ StartSend(i, h)
  \/ \E i \in Slots : Verify(i)
  \/ \E i \in Slots : GetAddr(i)
  \/ \E i \in Slots : GetBalance(i)
  \/ \E i \in Slots : GetNonce(i)
  \/ \E i \in Slots : GetFee(i)
  \/ \E i \in Slots : Sign(i)
  \/ \E i \in Slots : Broadcast(i)
  \/ \E i \in Slots : Close(i)
  \/ FeeChange
  \/ ChainAdvance
  \/ Restart

\* The handlers served one request at a time; the chain and the two
\* providers answer as they like.
Spec == Init /\ [][Next]_vars

\* a handler in flight resumes when the call it awaits returns or fails
HandlerStep ==
  \E i \in Slots :
    \/ SignUp(i) \/ Create(i) \/ Poll(i) \/ SignupGetAddr(i) \/ SignIn(i)
    \/ Verify(i) \/ GetAddr(i) \/ GetBalance(i) \/ GetNonce(i)
    \/ GetFee(i) \/ Sign(i) \/ Broadcast(i)

\* the positions at which a handler awaits a call
AwaitPcs == {"signUp", "create", "poll", "getAddr", "signIn", "verify",
             "getBalance", "getNonce", "getFee", "sign", "broadcast"}
Awaiting == \E i \in Slots : req[i].pc \in AwaitPcs

\* Every awaited call returns or fails: weak fairness of HandlerStep,
\* which is enabled exactly while a handler awaits a call.
LiveSpec ==
  Init /\ [][Next]_vars /\ ([]<>(~Awaiting) \/ []<><<HandlerStep>>_vars)

\* The same handlers in a process whose environment may lack a value.
SpecConfig == InitConfig /\ [][Next]_vars

\* ------------------------------------------------- overlapping requests
\* Node serves a request while others wait at an await: the handlers'
\* steps interleave freely. The callers are the accounts with the
\* password "pw", a Bearer token of theirs and a fixed transfer, and the
\* wallet provider settles a wallet by its first status query (a query is
\* answered 'ready' or with an error).
ConcTo     == Str(<<"0x00">>)
ConcAmount == Str(<<"1", ".", "5">>)
ConcHeaders == {Str(<<"Bearer", " ", JWT(u)>>) : u \in Users}

NextConc ==
  \/ \E i \in Slots, u \in Users : StartSignup(i, Email(u), Str(<<"pw">>))
  \/ \E i \in Slots : SignUp(i)
  \/ \E i \in Slots : Create(i)
  \/ \E i \in Slots : Poll(i) /\ req'[i].pc # "poll"
  \/ \E i \in Slots : SignupGetAddr(i)
  \/ \E i \in Slots, h \in ConcHeaders : StartWallet(i, h)
  \/ \E i \in Slots, h \in ConcHeaders : StartSend(i, h)
  \/ \E i \in Slots : VerifyWith(i, ConcTo, ConcAmount)
  \/ \E i \in Slots : GetAddr(i)
  \/ \E i \in Slots : GetBalance(i)
  \/ \E i \in Slots : GetNonce(i)
  \/ \E i \in Slots : GetFee(i)
  \/ \E i \in Slots : Sign(i)
  \/ \E i \in Slots : Broadcast(i)
  \/ \E i \in Slots : Close(i)
  \/ ChainAdvance
  \/ Restart

SpecConc == Init /\ [][NextConc]_vars

\* ============================================================ properties
Has(log, call)  == \E k \in 1..Len(log) : log[k] = call
Count(log, call) == Cardinality({k \in 1..Len(log) : log[k] = call})
WalletProviderCalls == {"create", "poll", "get", "sign-raw"}
ChainCalls == {"getBalance", "getTransactionCount", "getFeeData", "broadcast"}
NoWalletOrChainCall(r) ==
  /\ \A k \in 1..Len(r.log) : r.log[k] \notin WalletProviderCalls \cup ChainCalls
  /\ r.queries = 0 /\ r.sent = NoDigest /\ r.raw = NoRaw
WalletScoped(r) == r.kind \in {"wallet", "send"}
Done(r) == r.pc = "done"
\* a token the identity provider has issued to some account
IssuedToken(tok) == \E u \in Users : tok = Str(<<JWT(u)>>)
SignRefused(r) == r.err \in {ParaErr(c) : c \in ParaErrorCodes}
UpstreamFailure(r) ==
  r.err \in {"Para API error", "rpc error", "idp: failure"} \/ SignRefused(r)

\* C1 (auth gating): a wallet-scoped request with no token, with a token
\* the identity provider never issued, or whose verification returned no
\* account is answered 401, and as long as no account was verified the
\* request has made no call to the wallet provider or to the chain RPC.
AuthGating ==
  \A i \in Slots :
    LET r == req[i] IN
    WalletScoped(r) =>
      /\ r.user = 0 => NoWalletOrChainCall(r)
      /\ Done(r) /\ (~Truthy(r.token) \/ ~IssuedToken(r.token) \/ r.user = 0)
           => r.status = 401 /\ r.user = 0

\* C1 witness: a send carrying a malformed token was answered 401 after
\* the verification call, another case is the absent header
AuthGatingWitness ==
  \E i \in Slots :
    /\ req[i].kind = "send" /\ Done(req[i])
    /\ req[i].hdr = Str(<<"Bearer", " ", "junk">>)
    /\ req[i].log = <<"verify">> /\ req[i].status = 401

\* C2 (association requirement, as claimed): an authenticated caller whose
\* account has no entry in walletMap is answered 404 by fetch-wallet and by
\* send, whatever the body holds.
AssociationRequirement ==
  \A i \in Slots :
    LET r == req[i] IN
    WalletScoped(r) /\ Done(r) /\ r.user # 0 /\ walletMap[r.user] = 0
      => r.status = 404

\* C3 (signing-digest consistency): whenever a signed transaction has been
\* serialized for broadcast, its unsigned part is the serialization whose
\* hash was sent to the signer, and its fields are those of the digested
\* transaction: no SigningDigestMismatch.
SigningDigestMismatch(r) ==
  /\ r.raw # NoRaw
  /\ \/ r.sent # Keccak256(<<r.raw[1], r.raw[2]>>)
     \/ r.raw[2] # Fields(r.tx)
     \/ r.raw[3].over # r.sent
NoSigningDigestMismatch ==
  \A i \in Slots : ~SigningDigestMismatch(req[i])

\* C3 witness: a broadcast was made after both the address's on-chain
\* count and the fee estimate had moved away from the digested values
DriftBeforeBroadcastWitness ==
  \E i \in Slots :
    /\ req[i].kind = "send" /\ Done(req[i]) /\ Has(req[i].log, "broadcast")
    /\ chainNonce[req[i].wid] # req[i].tx.nonce
    /\ feeNow # req[i].tx.maxFeePerGas
    /\ req[i].status = 500

\* C4 (digest correctness): the data sent to sign-raw is keccak256 of the
\* canonical unsigned serialization of the transaction built from the
\* fetched nonce and fees and the caller's recipient and amount; it is not
\* the hash of the structured fields; for the sample transaction it is the
\* hash of the literal serialization.
SampleTx(tx) ==
  /\ tx.chainId = 11155111 /\ tx.nonce = 0 /\ tx.to = "0x00"
  /\ tx.value = Big(FALSE, <<"0">>) /\ tx.gasLimit = 21000
  /\ tx.maxFeePerGas = 1000000000 /\ tx.maxPriorityFeePerGas = 1000000000
  /\ tx.data = "0x"
SampleDigest ==
  <<"keccak256", <<"0x02", <<11155111, 0, 1000000000, 1000000000, 21000,
                             "0x00", <<>>, "0x", <<>> >> >> >>
DigestCorrect ==
  \A i \in Slots :
    LET r == req[i] IN
    r.sent # NoDigest =>
      /\ r.sent = Keccak256(UnsignedSerialized(r.tx))
      /\ r.sent # StructHash(r.tx)
      /\ r.tx.nonce = r.nonce /\ r.tx.to = GetAddress(r.to)
      /\ r.tx.value = ParseEther(r.amount)
      /\ SampleTx(r.tx) => r.sent = SampleDigest

\* C4 witness: the sample transaction was digested and sent to the signer
DigestSampleWitness ==
  \E i \in Slots : req[i].sent # NoDigest /\ SampleTx(req[i].tx)

TimedOut(r) == r.kind = "signup" /\ r.err = "Wallet creation timeout"
\* the full-success response of signup: 200 with a wallet address
FullSuccess(r) ==
  r.status = 200 /\ r.body.addr # NoAddr /\ ~r.body.warning /\ r.body.error = ""

\* C5 (bounded polling): createParaWallet never issues a 61st status
\* query; it fails with the timeout only after exactly MAX_ATTEMPTS
\* queries, all answered not-ready; and a run whose wallet never reported
\* ready and whose provider calls all answered ends in that timeout.
BoundedPolling ==
  \A i \in Slots :
    LET r == req[i] IN
    r.kind = "signup" =>
      /\ r.queries <= MAX_ATTEMPTS
      /\ r.pc = "poll" => r.queries < MAX_ATTEMPTS /\ r.queries = r.attempts
      /\ TimedOut(r) =>
           r.queries = MAX_ATTEMPTS /\ r.attempts = MAX_ATTEMPTS /\ ~r.ready
      /\ Done(r) /\ r.wid # 0 /\ ~r.ready /\ ~UpstreamFailure(r)
           => TimedOut(r) /\ r.queries = MAX_ATTEMPTS

\* C5 witness: a signup that timed out after 60 status queries
BoundedPollingWitness ==
  \E i \in Slots :
    TimedOut(req[i]) /\ Done(req[i]) /\ req[i].queries = 60

\* C6 (timeout is a hard failure): a provisioning that timed out has ended
\* the request, no walletMap entry holds its wallet id, and the response is
\* not the full-success response.
TimeoutIsHardFailure ==
  \A i \in Slots :
    LET r == req[i] IN
    TimedOut(r) =>
      /\ Done(r)
      /\ \A u \in Users : walletMap[u] # r.wid
      /\ ~FullSuccess(r)
      /\ r.body.addr = NoAddr

\* C6 witness: a timed-out signup: the provider holds the wallet that was
\* created for the account, walletMap has no entry for the account
TimeoutKeepsMapWitness ==
  \E i \in Slots :
    /\ TimedOut(req[i]) /\ Done(req[i])
    /\ paraWallet[req[i].user] = req[i].wid /\ walletMap[req[i].user] = 0

\* C7 (idempotent readiness polling): when the creation call already
\* reports 'ready', provisioning makes no status query and no delay, never
\* enters the loop, and the association is recorded.
ReadyAtOnce ==
  \A i \in Slots :
    LET r == req[i] IN
    r.kind = "signup" /\ r.ready0 =>
      /\ r.queries = 0 /\ r.attempts = 0
      /\ ~Has(r.log, "poll") /\ r.pc # "poll"
      /\ Count(r.log, "create") = 1
      /\ walletMap[r.user] = r.wid

\* C7 witness: a signup whose wallet was ready at creation, about to look
\* up the address
ReadyAtOnceWitness ==
  \E i \in Slots :
    /\ req[i].kind = "signup" /\ req[i].ready0 /\ req[i].pc = "getAddr"
    /\ req[i].log = <<"signUp", "create">>

\* C8 (partial registration is never reported as full success): when the
\* account was created and a later wallet step failed, the response carries
\* no wallet address; server.js answers 500 with an error message,
\* handler.js answers 200 with wallet_address null and the warning.
PartialRegistration(r) ==
  r.kind = "signup" /\ Done(r) /\ r.user # 0 /\ r.err # ""
PartialIsDistinct ==
  \A i \in Slots :
    LET r == req[i] IN
    PartialRegistration(r) =>
      /\ r.body.addr = NoAddr /\ ~FullSuccess(r)
      /\ impl = "server" => r.status = 500 /\ r.body.error = r.err
      /\ impl = "handler" => r.status = 200 /\ r.body.warning

\* C8 witness: handler.js reporting a failed address lookup after the
\* mapping was already stored
PartialWitness ==
  \E i \in Slots :
    /\ PartialRegistration(req[i]) /\ impl = "handler"
    /\ req[i].body.warning /\ Has(req[i].log, "get")

\* C9 (amount validation, as claimed): a send by an authenticated caller
\* with an association whose amount is "-0.1" or "abc", with no upstream
\* failure, is answered 400 and makes no sign-raw request and no broadcast.
BadAmounts == {Str(<<"-", "0", ".", "1">>), Str(<<"a", "b", "c">>)}
AmountValidation ==
  \A i \in Slots :
    LET r == req[i] IN
    /\ r.kind = "send" /\ Done(r) /\ r.user # 0 /\ r.wid # 0
    /\ r.amount \in BadAmounts /\ ~UpstreamFailure(r)
    => r.status = 400 /\ ~Has(r.log, "sign-raw") /\ ~Has(r.log, "broadcast")

\* C10 (zero amount is valid): a send with amount "0" is never rejected
\* as a missing field nor as an invalid amount; the transaction it builds
\* has value 0; and when no later step fails it is signed, broadcast and
\* answered 200.
ZeroAmount == Str(<<"0">>)
ZeroIsValid ==
  \A i \in Slots :
    LET r == req[i] IN
    r.kind = "send" /\ r.amount = ZeroAmount /\ Truthy(r.to) =>
      /\ Done(r) => r.status # 400
      /\ \/ r.err \in {"", "Para API error", "rpc error",
                      "invalid signature", "serializeTransaction failed"}
         \/ SignRefused(r)
      /\ r.pc \in {"sign", "broadcast"} =>
           r.tx.value = Big(FALSE, <<>>) /\ r.digest = Digest(r.tx)
      /\ Done(r) /\ r.wid # 0 /\ r.err = "" =>
           /\ r.status = 200 /\ r.tx.value.mag = <<>>
           /\ Has(r.log, "sign-raw") /\ Has(r.log, "broadcast")

\* C10 witness: a zero-value send that was signed, broadcast and answered
\* 200
ZeroSentWitness ==
  \E i \in Slots :
    /\ req[i].kind = "send" /\ req[i].amount = ZeroAmount
    /\ req[i].status = 200 /\ Has(req[i].log, "broadcast")
    /\ req[i].tx.value.mag = <<>>

\* C11 (fresh token verification): a wallet-scoped request that carries a
\* token asks the identity provider once, never twice, and before any
\* other call; its decision is that answer: an account is set only by an
\* "ok" answer for this very token, and any other answer ends the request
\* with 401, also for a token the provider itself had issued.
FreshVerification ==
  \A i \in Slots :
    LET r == req[i] IN
    WalletScoped(r) =>
      /\ Count(r.log, "verify") <= 1
      /\ r.pc \notin {"idle", "verify"} /\ Truthy(r.token) /\ IdpReachable
           => r.log # <<>> /\ r.log[1] = "verify" /\ r.cause # ""
      /\ r.pc = "verify" => r.log = <<>> /\ r.cause = "" /\ r.user = 0
      /\ r.user # 0 => r.cause = "ok" /\ r.token = Str(<<JWT(r.user)>>)
      /\ r.cause \in {"rejected", "transport"}
           => Done(r) /\ r.status = 401 /\ r.user = 0

\* C11 witness: a token the provider had issued is reported invalid on
\* this request (expired or revoked since) and the request is answered 401
ExpiredTokenWitness ==
  \E i \in Slots :
    /\ req[i].kind = "wallet" /\ Done(req[i])
    /\ IssuedToken(req[i].token) /\ req[i].cause = "rejected"
    /\ req[i].log = <<"verify">> /\ req[i].status = 401

\* C12 (uniform verification failure): whether the verification call
\* threw or the provider rejected the token, and whatever the token was,
\* verifyToken returned null and the response is the same 401 with the
\* message 'Invalid token' and nothing else in the body.
InvalidTokenBody == [NoBody EXCEPT !.error = "Invalid token"]
UniformVerifyFailure ==
  \A i \in Slots :
    LET r == req[i] IN
    WalletScoped(r) /\ r.cause \in {"rejected", "transport"} =>
      /\ r.user = 0 /\ r.user \in VerifyAnswers(r.token)
      /\ Done(r) /\ r.status = 401 /\ r.body = InvalidTokenBody
      /\ r.err = ""

\* C12 witness: a send whose verification call threw, answered 401
\* 'Invalid token'
TransportFailureWitness ==
  \E i \in Slots :
    /\ req[i].kind = "send" /\ Done(req[i]) /\ req[i].cause = "transport"
    /\ IssuedToken(req[i].token) /\ req[i].body = InvalidTokenBody

\* the calls of a send, in the order of the handler
SendSteps == <<"verify", "get", "getTransactionCount", "getFeeData",
               "sign-raw", "broadcast">>

\* C13 (send pipeline order): the calls of a send are made in the order
\* verify, address, nonce, fee data, sign-raw, broadcast, each at most
\* once; the transaction exists only after nonce and fee data were
\* fetched; sign-raw is sent only with the digest of that transaction; the
\* broadcast only with a returned signature over it; 200 is answered only
\* after the network accepted the broadcast and carries the hash of the
\* network's answer; a failure ends the request with no later call.
PipelineOrder ==
  \A i \in Slots :
    LET r == req[i] IN
    r.kind = "send" =>
      /\ Len(r.log) <= Len(SendSteps)
      /\ \A k \in 1..Len(r.log) : r.log[k] = SendSteps[k]
      /\ r.tx # NoTx => Len(r.log) >= 4 /\ r.tx.nonce = r.nonce
      /\ Has(r.log, "sign-raw") =>
           r.tx # NoTx /\ r.digest = Digest(r.tx) /\ r.sent = r.digest
      /\ Has(r.log, "broadcast") =>
           r.raw = SerializeSigned(r.tx, Signature(r.wid, r.digest))
      /\ r.status = 200 =>
           /\ Has(r.log, "broadcast") /\ r.err = ""
           /\ r.body.hash = TxResponse(r.raw).hash
           /\ chainNonce[r.wid] > r.tx.nonce
      /\ r.err # "" => Done(r) /\ r.status = 500 /\ r.body.hash = NoDigest

\* C13 witness: a send that made all six calls and was answered 200 with
\* the network's hash
PipelineWitness ==
  \E i \in Slots :
    /\ req[i].kind = "send" /\ req[i].status = 200
    /\ req[i].log = SendSteps
    /\ req[i].body.hash = TxResponse(req[i].raw).hash

\* C14 (no automatic retry of signing): a send makes at most one sign-raw
\* request; when the provider refuses it (401, 404 or 503) the send has
\* ended with 500 and the provider's message in the body, with exactly one
\* sign-raw request made, nothing serialized and no broadcast.
NoSignRetry ==
  \A i \in Slots :
    LET r == req[i] IN
    r.kind = "send" =>
      /\ Count(r.log, "sign-raw") <= 1
      /\ SignRefused(r) =>
           /\ Done(r) /\ r.status = 500 /\ r.body.error = r.err
           /\ Count(r.log, "sign-raw") = 1
           /\ r.raw = NoRaw /\ ~Has(r.log, "broadcast")

\* C14 witness: a send whose sign-raw request met a transient failure
SignRefusedWitness ==
  \E i \in Slots :
    /\ req[i].kind = "send" /\ Done(req[i])
    /\ req[i].err = ParaErr("503") /\ req[i].body.error = ParaErr("503")
    /\ req[i].log = SubSeq(SendSteps, 1, 5)

\* C15 (end-to-end address agreement): a registration that succeeds
\* returns the address of the wallet the provider holds for that identity
\* and has associated it; a login returns the token of the account of its
\* email; a fetch-wallet that succeeds with that token returns the address
\* of the wallet the provider holds for that identity; and the provider
\* never changes the wallet of an identity. So the two addresses agree.
AddressAgreementState ==
  \A i \in Slots :
    LET r == req[i] IN
    /\ r.kind = "signup" /\ Done(r) /\ FullSuccess(r) =>
         /\ r.user = UserOf(r.email) /\ paraWallet[r.user] # 0
         /\ r.body.addr = Addr(paraWallet[r.user])
         /\ walletMap[r.user] = paraWallet[r.user]
    /\ r.kind = "login" /\ r.status = 200 =>
         r.body.token = JWT(UserOf(r.email))
    /\ r.kind = "wallet" /\ r.status = 200 =>
         /\ r.token = Str(<<JWT(r.user)>>) /\ paraWallet[r.user] # 0
         /\ r.body.addr = Addr(paraWallet[r.user])
ReRegistrationRecovers ==
  \A i \in Slots :
    LET r == req[i] IN
    /\ r.kind = "signup" /\ Done(r) /\ r.user # 0
    /\ paraWallet[r.user] # 0 /\ r.wid = 0
    /\ r.err # "Para API error"
    => walletMap[r.user] # 0

\* C17 (association precedes success): an entry of walletMap is the wallet
\* that was created for that account's identity; an entry is written only
\* by a signup of that account whose wallet has reported ready; a
\* wallet-scoped request holds a wallet id only as read from the caller's
\* entry, and is answered 200 only with one.
AssociationState ==
  /\ \A u \in Users :
       walletMap[u] \in 0..MaxWallets
       /\ (walletMap[u] # 0 => walletMap[u] = paraWallet[u])
  /\ \A i \in Slots :
       LET r == req[i] IN
       WalletScoped(r) =>
         /\ r.wid # 0 => r.user # 0 /\ walletMap[r.user] = r.wid
         /\ r.status = 200 => r.wid # 0
AssociationPrecedesSuccess ==
  /\ []AssociationState
  /\ [][\A u \in Users :
          walletMap'[u] # walletMap[u] /\ walletMap'[u] # 0 =>
            \E i \in Slots :
              /\ req'[i].kind = "signup" /\ req'[i].user = u
              /\ req'[i].wid = walletMap'[u] /\ req'[i].ready]_vars

\* C17 witness: a send answered 200 for an account whose entry is the
\* wallet it signed with
AssociatedSendWitness ==
  \E i \in Slots :
    /\ req[i].kind = "send" /\ req[i].status = 200
    /\ walletMap[req[i].user] = req[i].wid /\ req[i].wid # 0
    /\ req[i].raw[3].signer = req[i].wid

\* C18 (startup configuration check, as claimed): a process whose
\* environment lacks a required value serves no request: none is ever
\* accepted.
StartupConfigCheck ==
  cfg # FullConfig => \A i \in Slots : req[i].pc = "idle"

\* the statuses and body shapes the handlers send
Statuses == {200, 400, 401, 404, 500}
WellFormed(r) ==
  /\ r.status \in Statuses
  /\ r.status # 200 => r.body.error # "" /\ r.body.addr = NoAddr
                         /\ r.body.hash = NoDigest /\ r.body.token = ""
  /\ r.status = 200 => r.body.error = ""

\* C19 (every request gets a structured answer): provided every awaited
\* call returns or fails, each accepted request is eventually answered;
\* an answer has a status and a JSON body of the handler's shapes, an
\* error body for every status but 200; and an answered request is not
\* answered again.
StructuredAnswer ==
  /\ \A i \in Slots : (req[i].pc # "idle") ~> Done(req[i])
  /\ [](\A i \in Slots : Done(req[i]) => WellFormed(req[i]))
  /\ [][\A i \in Slots :
          Done(req[i]) => req'[i] = req[i] \/ req'[i] = Idle]_vars

\* C19 witness: the signer's answer could not be parsed and the send was
\* answered 500 with that error
ParseFailureAnswered ==
  \E i \in Slots :
    /\ Done(req[i]) /\ req[i].err = "invalid signature"
    /\ req[i].status = 500 /\ req[i].body.error = "invalid signature"


\* the keys of a JSON body: the fields the handler has set
BodyKeys(b) == {k \in DOMAIN b : b[k] # NoBody[k]}
\* what a caller can tell an answer's kind by: its status and its keys
ErrorClass(r) == [status |-> r.status, keys |-> BodyKeys(r.body)]
\* a call to the chain's RPC endpoint failed
RpcFailed(r) == r.err = "rpc error"
\* the answer of the same handler to a refused signing request
SigningFailureAnswer(r) == Catch(Thrown(r, ParaErr("503")))

\* C20 (failures are classified by origin): a fetch-wallet or send that
\* ended because a chain RPC call failed is answered with an error class
\* distinct from the one for a signing failure, and the body of a failed
\* send names the pipeline step that failed.
FailureClassification ==
  \A i \in Slots :
    LET r == req[i] IN
    Done(r) /\ WalletScoped(r) /\ RpcFailed(r) =>
      /\ ErrorClass(r) # ErrorClass(SigningFailureAnswer(r))
      /\ r.kind = "send" => "step" \in BodyKeys(r.body)


\* a signup that is refused before any wallet step: a field is missing, or
\* the identity provider answered the registration with { error }
MissingCredentials(r) == ~Truthy(r.email) \/ ~Truthy(r.password)
RejectedUpFront(r) ==
  /\ r.kind = "signup" /\ r.pc # "idle"
  /\ MissingCredentials(r) \/ r.cause = "rejected"

LoginOutcome ==
  \A i \in Slots :
    LET r == req[i] IN
    r.kind = "login" /\ Done(r) =>
      /\ MissingCredentials(r) =>
           /\ r.status = 400 /\ r.log = <<>>
           /\ r.body = [NoBody EXCEPT !.error = "Email and password required"]
      /\ r.cause = "rejected" =>
           r.status = 401 /\ r.body = [NoBody EXCEPT !.error = IdpMsg]
      /\ r.status = 200 <=> ~MissingCredentials(r) /\ r.cause = "ok"
      /\ r.status = 200 =>
           r.body = [NoBody EXCEPT !.user = UserOf(r.email),
                                   !.token = JWT(UserOf(r.email))]

\* C22 witness: a login with both fields present that the identity
\* provider rejected
LoginRejectedWitness ==
  \E i \in Slots :
    LET r == req[i] IN
    /\ r.kind = "login" /\ Done(r) /\ ~MissingCredentials(r)
    /\ r.cause = "rejected" /\ r.status = 401 /\ r.log = <<"signIn">>


\* an Authorization header of the form 'Bearer <token>'
BearerForm(h) ==
  /\ h.t = "str" /\ Len(h.v) = 3
  /\ h.v[1] = "Bearer" /\ h.v[2] = " " /\ h.v[3] # ""

\* C23 (Bearer format is required): a wallet-scoped request whose
\* Authorization header is not of the form 'Bearer <token>' is answered
\* with 401.
BearerRequired ==
  \A i \in Slots :
    LET r == req[i] IN
    WalletScoped(r) /\ Done(r) /\ ~BearerForm(r.hdr) => r.status = 401


\* C24 (no state carried between sends): a send starts with none of the
\* values of an earlier request (nonce, transaction, digest, signature);
\* the nonce it uses is the count the chain reports at its own
\* getTransactionCount call and the fees are the estimate at its own
\* getFeeData call; both calls come after the lookup and before the
\* transaction is built.
FreshChainState ==
  /\ [](\A i \in Slots :
          LET r == req[i] IN
          r.kind = "send" /\ r.tx # NoTx =>
            /\ Len(r.log) >= 4 /\ r.wid # 0
            /\ r.log[3] = "getTransactionCount" /\ r.log[4] = "getFeeData")
  /\ [][\A i \in Slots :
          LET r == req[i]
              n == req'[i]
          IN  /\ r.pc = "idle" /\ n.kind = "send" =>
                   /\ n.nonce = 0 /\ n.tx = NoTx /\ n.digest = NoDigest
                   /\ n.sent = NoDigest /\ n.raw = NoRaw /\ n.log = <<>>
              /\ r.pc = "getNonce" /\ n.pc = "getFee" =>
                   n.nonce = chainNonce[r.wid]
              /\ r.pc = "getFee" /\ n.pc = "sign" =>
                   /\ n.tx.nonce = r.nonce
                   /\ n.tx.maxFeePerGas = feeNow
                   /\ n.digest = Digest(n.tx)]_vars

\* C24 witness: the chain's count and fee estimate have moved away from
\* what they were when the process started, and a send has built its
\* transaction from the values it fetched itself
RefetchedWitness ==
  \E i \in Slots :
    LET r == req[i] IN
    /\ r.kind = "send" /\ r.pc = "sign"
    /\ chainNonce[r.wid] = 1 /\ r.tx.nonce = 1
    /\ feeNow = 2000000000 /\ r.tx.maxFeePerGas = feeNow


\* the wallet provider answered the create call or a status query of this
\* signup with an error
ProvisioningError(r) ==
  /\ r.kind = "signup" /\ r.err \in {ParaFail, ConflictMsg}
  /\ ~Has(r.log, "get")

\* C25 (provider error aborts provisioning): once the wallet provider has
\* answered the create call or a status query with an error, the signup is
\* over: the failing call is its last call, no status query follows it, the
\* step leaves walletMap as it was, and walletMap holds no entry with the
\* wallet of this request.
ProviderErrorAborts ==
  /\ [](\A i \in Slots :
          LET r == req[i] IN
          ProvisioningError(r) =>
            /\ Done(r) /\ ~FullSuccess(r)
            /\ r.log[Len(r.log)] \in {"create", "poll"}
            /\ r.log[Len(r.log)] = "create" => r.queries = 0 /\ r.wid = 0
            /\ r.log[Len(r.log)] = "poll" => r.queries = r.attempts + 1
            /\ r.wid # 0 => walletMap[r.user] # r.wid)
  /\ [][\A i \in Slots :
          /\ ~ProvisioningError(req[i]) /\ ProvisioningError(req'[i])
               => walletMap' = walletMap
          /\ ProvisioningError(req[i])
               => req'[i] = req[i] \/ req'[i] = Idle]_vars

\* C25 witness: the second status query of a signup was answered with an
\* error; the provider holds the wallet, walletMap has no entry
PollErrorWitness ==
  \E i \in Slots :
    LET r == req[i] IN
    /\ ProvisioningError(r) /\ Done(r)
    /\ r.queries = 2 /\ r.attempts = 1
    /\ paraWallet[r.user] = r.wid /\ walletMap[r.user] = 0


\* the send has handed its transaction to provider.broadcastTransaction
Broadcasted(r) == r.kind = "send" /\ Has(r.log, "broadcast")

\* C26 (concurrent sends do not reuse a nonce): when a send broadcasts its
\* transaction while the answer of another send of the same account, whose
\* transaction the network accepted, is still standing, the two
\* transactions carry different nonces. (The broadcasting send can hold
\* the nonce of the accepted one only if it read the count before the
\* other was accepted, that is, while the other was in flight.)
NoNonceReuse ==
  [][\A i, j \in Slots :
       LET a == req[i]
           b == req[j]
       IN  /\ i # j /\ Broadcasted(a) /\ a.status = 200
           /\ b.kind = "send" /\ b.pc = "broadcast" /\ Broadcasted(req'[j])
           /\ a.user = b.user
           => a.tx.nonce # b.tx.nonce]_vars


\* C27 (a failed signup leaves no association): an answered signup that
\* is not the full success (500, or 200 with the warning) has not left in
\* walletMap an entry for its account with the wallet it created.
FailedSignupNoAssociation ==
  \A i \in Slots :
    LET r == req[i] IN
    r.kind = "signup" /\ Done(r) /\ ~FullSuccess(r) /\ r.user # 0 =>
      ~(r.wid # 0 /\ walletMap[r.user] = r.wid)


\* C28 (wallet isolation): the wallet id a fetch-wallet or send holds is
\* the one read from walletMap under the account its token was verified
\* to, at the lookup; it stays the same until the request ends; the
\* address, the nonce query, the reported 'from' and the signature are
\* those of that wallet; and it is the wallet of no other account.
WalletIsolationState ==
  \A i \in Slots :
    LET r == req[i] IN
    WalletScoped(r) /\ r.wid # 0 =>
      /\ r.user # 0 /\ paraWallet[r.user] = r.wid
      /\ \A v \in Users \ {r.user} :
           walletMap[v] # r.wid /\ paraWallet[v] # r.wid
      /\ r.addr \in {NoAddr, Addr(r.wid)}
      /\ r.raw # NoRaw => r.raw[3].signer = r.wid
      /\ r.status = 200 => r.body.addr = Addr(r.wid)
NonProvisioning == {"login", "wallet", "send"}

\* C29 (only provisioning writes the association table): a step of a
\* login, fetch-wallet or send, whatever its outcome, leaves walletMap
\* unchanged; an entry changes only to the wallet of a signup of that
\* account at the step at which createParaWallet leaves its loop with the
\* wallet ready; no step of a request removes an entry (the table is
\* emptied only when the process starts anew, with no request in flight).
OnlyProvisioningWrites ==
  [][/\ \A i \in Slots :
          /\ req'[i] # req[i]
          /\ req[i].kind \in NonProvisioning \/ req'[i].kind \in NonProvisioning
          => walletMap' = walletMap
     /\ \A u \in Users :
          walletMap'[u] # walletMap[u] =>
            \/ /\ walletMap'[u] # 0
               /\ \E i \in Slots :
                    /\ req[i].kind = "signup" /\ req[i].pc \in {"create", "poll"}
                    /\ req'[i].ready /\ req'[i].user = u
                    /\ req'[i].wid = walletMap'[u]
            \/ /\ \A i \in Slots : Free(i)
               /\ req' = req]_vars

\* C29 witness: a send of an associated account was refused by the signer
\* with 404 and the account's entry is still in place
EntryKeptAfterRefusal ==
  \E i \in Slots :
    LET r == req[i] IN
    /\ r.kind = "send" /\ Done(r) /\ r.err = ParaErr("404")
    /\ r.wid # 0 /\ walletMap[r.user] = r.wid


\* the wallet of this signup first reported 'ready' on a status query
ReadyOnQuery(r) == r.kind = "signup" /\ r.ready /\ ~r.ready0

\* C30 (polling boundary): when the wallet first reports 'ready' on the
\* k-th status query, 1 <= k <= MAX_ATTEMPTS, that query is the last one:
\* createParaWallet has made exactly k queries, does not time out, and has
\* recorded the association at that step; this holds for k = MAX_ATTEMPTS
\* as for every smaller k.
PollingBoundary ==
  /\ [](\A i \in Slots :
          LET r == req[i] IN
          ReadyOnQuery(r) =>
            /\ r.queries \in 1..MAX_ATTEMPTS /\ r.attempts = r.queries
            /\ ~TimedOut(r) /\ r.pc \in {"getAddr", "done"}
            /\ Count(r.log, "poll") = r.queries
            /\ walletMap[r.user] = r.wid)
  /\ [][\A i \in Slots :
          req[i].pc = "poll" /\ req'[i].ready =>
            /\ req'[i].queries = req[i].queries + 1
            /\ req'[i].pc = "getAddr" /\ req'[i].err = ""
            /\ walletMap'[req[i].user] = req[i].wid]_vars

\* C30 witness: the wallet reported 'ready' on the last status query the
\* loop allows and the signup succeeded
ReadyOnLastQuery ==
  \E i \in Slots :
    LET r == req[i] IN
    /\ ReadyOnQuery(r) /\ r.queries = MAX_ATTEMPTS
    /\ Done(r) /\ FullSuccess(r) /\ walletMap[r.user] = r.wid

====
